---------------------------- MODULE Spec2Model ----------------------------
(***************************************************************************)
(* ASTRAL_NOTES workspace engine: the ProjectStore (projectService.ts) and *)
(* the writing companion (aiWritingCompanion.ts), as the patch scripts     *)
(* under src/ leave them.                                                  *)
(*                                                                         *)
(* A project, story or character is a record whose fields are the keys of  *)
(* the JavaScript object; a key that was never set is absent from DOMAIN.  *)
(* Timestamps are readings of a millisecond clock that never runs          *)
(* backwards; two readings may be equal.                                   *)
(***************************************************************************)
EXTENDS Integers, Sequences, FiniteSets, TLC

VARIABLES
    storage,      \* the persisted snapshot: the sequence of projects
    clock,        \* the last reading of the wall clock (new Date())
    nextId,       \* the next identifier generateId() hands out
    call,         \* the last ProjectStore call: its name and arguments
    ret,          \* what that call returned
    prev,         \* the persisted snapshot before that call
    saves,        \* how many times that call ran saveProjects
    emitted,      \* the events that call emitted, in order
    live,         \* stories and characters a create call persisted, not yet deleted
    gone,         \* ids on which deleteStory / deleteCharacter returned true
    calls,        \* how many calls have been made on the services
    backendUp,    \* whether the persistence backend accepts a write
    personalities,   \* the companion's AIPersonality profiles
    currentSession,  \* the companion's current WritingSession, or Null
    ended,           \* the session the last end call closed, or Null
    checkpoint,      \* totalWords as it was before the last content change
    ccall,           \* the last companion call: its name and arguments
    phase,           \* the tracker's state: "Idle" or "Active"
    tasks,        \* the calls of async operations whose promise is pending
    steps,        \* the loads and saves those calls made, in order
    listeners,    \* the listeners registered with on(), in registration order
    received,     \* the deliveries the last call made to listeners, in order
    audience      \* how many listeners were registered when that call was made

storeVars == <<storage, nextId, call, ret, prev, saves, emitted, received, audience,
              live, gone>>

companionVars == <<personalities, currentSession, ended, checkpoint, ccall, phase>>

asyncVars == <<tasks, steps>>

vars == <<storeVars, companionVars, asyncVars, clock, calls, backendUp, listeners>>

----------------------------------------------------------------------------
(* Bounds of the model *)

MaxClock == 2
MaxCalls == 4
MaxIds == 4
MaxProjects == 2
MaxStories == 2
MaxChars == 1
MaxWords == 2

----------------------------------------------------------------------------
(* Values *)

Null == [null |-> TRUE]
Undefined == "<undefined>"

Titles == {"Chapter 1"}
StoryUpdates == {[title |-> "T2"], [content |-> "Once upon a time"]}
CharacterUpdates == {[name |-> "N2"]}
ProjectUpdates == {[title |-> "T"], [description |-> "D"]}

\* partial objects of any shape: "updates: any" and the spread of data
AnyStoryUpdates ==
    StoryUpdates \cup {[id |-> k] : k \in 1..MaxIds} \cup {[wordCount |-> 3]}
AnyCharacterUpdates == CharacterUpdates \cup {[id |-> k] : k \in 1..MaxIds}
AnyProjectUpdates ==
    ProjectUpdates \cup {[id |-> k] : k \in 1..MaxIds}
        \cup {[wordCount |-> 7], [title |-> ""], [title |-> "T", wordCount |-> 7]}

\* new Date(): a reading at or after the last one
Readings(t) == {u \in t..(t + 1) : u <= MaxClock}

----------------------------------------------------------------------------
(* JavaScript helpers *)

\* { ...a, ...b }
Spread(a, b) ==
    [k \in DOMAIN a \cup DOMAIN b |-> IF k \in DOMAIN b THEN b[k] ELSE a[k]]

\* a miss taken for the first element
FindIndexOrFirst(xs, id) ==
    IF \E i \in 1..Len(xs) : xs[i].id = id
    THEN CHOOSE i \in 1..Len(xs) :
            /\ xs[i].id = id
            /\ \A j \in 1..(i - 1) : xs[j].id # id
    ELSE IF Len(xs) > 0 THEN 1 ELSE 0

\* xs.findIndex(x => x.id === id), 0 standing for -1
FindIndexById(xs, id) ==
    IF \E i \in 1..Len(xs) : xs[i].id = id
    THEN CHOOSE i \in 1..Len(xs) :
            /\ xs[i].id = id
            /\ \A j \in 1..(i - 1) : xs[j].id # id
    ELSE 0

\* xs.splice(i, 1)
\* the last element removed, whatever the index
SpliceLast(xs, i) == [j \in 1..(Len(xs) - 1) |-> xs[j]]

Splice(xs, i) == [j \in 1..(Len(xs) - 1) |-> IF j < i THEN xs[j] ELSE xs[j + 1]]

\* a || b, for strings
OrElse(a, b) == IF a = Undefined \/ a = "" THEN b ELSE a

\* project.stories || []
ListOrEmpty(p, field) == IF field \in DOMAIN p THEN p[field] ELSE <<>>

----------------------------------------------------------------------------
(* ProjectStore *)

\* one more call, while the model's budget of calls lasts
Called ==
    /\ calls < MaxCalls
    /\ calls' = calls + 1
    /\ UNCHANGED <<companionVars, asyncVars, backendUp, listeners>>

\* what a caller gets when saveProjects throws
PersistenceFailure == [error |-> "PersistenceFailure"]

\* the keys whose value is a string, or undefined
StringKeys == {"title", "description", "name", "content", "age"}

\* JSON.stringify of an object: a key whose value is undefined is left out
Stringify(object) ==
    [k \in {key \in DOMAIN object :
                ~(key \in StringKeys /\ object[key] = Undefined)} |-> object[k]]

StringifyList(list) == [j \in 1..Len(list) |-> Stringify(list[j])]

\* the serialized form of a snapshot
Serialize(projects) ==
    [i \in 1..Len(projects) |->
        LET project == Stringify(projects[i])
        IN  [k \in DOMAIN project |->
                IF k \in {"stories", "characters"}
                THEN StringifyList(project[k]) ELSE project[k]]]

\* storageService.saveProjects(projects): the whole snapshot replaced, or
\* nothing written and a PersistenceFailure thrown
saveProjects(projects) ==
    /\ storage' = IF backendUp THEN Serialize(projects) ELSE storage
    /\ saves' = 1

\* statements after saveProjects run only when it did not throw
Return(value) == ret' = IF backendUp THEN value ELSE PersistenceFailure

\* this.emit(...) placed before saveProjects
EventNames == {"project-created", "project-updated"}

\* the deliveries of one event to the listeners ls, whatever their event name
DeliverOneToAll(event, ls) ==
    [k \in 1..Len(ls) |->
        [listener |-> ls[k].id, name |-> event.name, payload |-> event.payload]]

\* the deliveries of one event: to the listeners of its name, in their order
DeliverOne(event, ls) ==
    DeliverOneToAll(event, SelectSeq(ls, LAMBDA l : l.name = event.name))

\* every listener called for every event
RECURSIVE DeliverToAll(_, _)
DeliverToAll(events, ls) ==
    IF events = <<>> THEN <<>>
    ELSE DeliverOneToAll(Head(events), ls) \o DeliverToAll(Tail(events), ls)

\* the synchronous deliveries of the events, one event after the other
RECURSIVE Deliver(_, _)
Deliver(events, ls) ==
    IF events = <<>> THEN <<>>
    ELSE DeliverOne(Head(events), ls) \o Deliver(Tail(events), ls)

EmitBeforeSave(events) ==
    /\ emitted' = events
    /\ received' = Deliver(events, listeners)
    /\ audience' = Len(listeners)

\* this.emit(...) placed after saveProjects
Emit(events) ==
    LET sent == IF backendUp THEN events ELSE <<>>
    IN  /\ emitted' = sent
        /\ received' = Deliver(sent, listeners)
        /\ audience' = Len(listeners)

\* a load that fills in the lists a project lacks
getAllProjectsNormalised ==
    [i \in 1..Len(storage) |->
        Spread([stories |-> <<>>, characters |-> <<>>], storage[i])]

\* storageService.getProjects(), through this.getAllProjects()
getAllProjects == storage

NewProject(id, data, now) ==
    [id |-> id, title |-> data.title, description |-> data.description,
     createdAt |-> now, updatedAt |-> now, lastEditedAt |-> now,
     wordCount |-> 0]

NewStory(id, data, now) ==
    [id |-> id, title |-> data.title, description |-> OrElse(data.description, ""),
     projectId |-> data.projectId, content |-> "", wordCount |-> 0,
     type |-> "story", createdAt |-> now, updatedAt |-> now,
     isArchived |-> FALSE, order |-> 0]

\* the story pushed onto a copy of the project that is not the one saved
StoreStoryStale(projects, projectIndex, story, now) ==
    [projects EXCEPT ![projectIndex] = Spread(@, [updatedAt |-> now])]

\* createStory's "if (projectIndex !== -1)" block, on the loaded projects
\* updatedAt stamped on every project
StoreStoryStampingAll(projects, projectIndex, story, now) ==
    [i \in 1..Len(projects) |->
        IF i = projectIndex
        THEN Spread(projects[i],
                    [stories |-> Append(ListOrEmpty(projects[i], "stories"), story),
                     updatedAt |-> now])
        ELSE Spread(projects[i], [updatedAt |-> now])]

StoreStory(projects, projectIndex, story, now) ==
    [projects EXCEPT ![projectIndex] =
        Spread(@, [stories |-> Append(ListOrEmpty(@, "stories"), story),
                   updatedAt |-> now])]

NewCharacter(id, data, now) ==
    [id |-> id, name |-> data.name, description |-> OrElse(data.description, ""),
     projectId |-> data.projectId, role |-> "supporting", age |-> Undefined,
     appearance |-> "",
     personality |-> "", backstory |-> "", goals |-> "",
     createdAt |-> now, updatedAt |-> now]

\* createCharacter's "if (projectIndex !== -1)" block, on the loaded projects
StoreCharacter(projects, projectIndex, character, now) ==
    [projects EXCEPT ![projectIndex] =
        Spread(@, [characters |-> Append(ListOrEmpty(@, "characters"), character),
                   updatedAt |-> now])]

\* the scan "for (let i = 0; ...) if (project[field]) findIndex(...) !== -1":
\* the first project whose list holds the id, 0 when none does
FirstHolder(projects, field, id) ==
    LET holds(i) == /\ field \in DOMAIN projects[i]
                    /\ FindIndexById(projects[i][field], id) # 0
    IN  IF \E i \in 1..Len(projects) : holds(i)
        THEN CHOOSE i \in 1..Len(projects) :
                holds(i) /\ \A j \in 1..(i - 1) : ~holds(j)
        ELSE 0

\* { ...project.stories[storyIndex], ...updates, updatedAt: new Date() }
UpdatedEntity(entity, updates, stamp) ==
    Spread(Spread(entity, updates), [updatedAt |-> stamp])

\* every entity of the list restamped, not only the one updated
StoreUpdatedAll(projects, i, field, index, updated, stamp) ==
    LET list == [j \in 1..Len(projects[i][field]) |->
                    IF j = index THEN updated
                    ELSE Spread(projects[i][field][j], [updatedAt |-> updated.updatedAt])]
    IN  [projects EXCEPT ![i] =
            Spread(Spread(@, [f \in {field} |-> list]), [updatedAt |-> stamp])]

\* the project stamped with the time read when the call began
StoreUpdatedEarly(projects, i, field, index, updated, stamp) ==
    LET list == [projects[i][field] EXCEPT ![index] = updated]
    IN  [projects EXCEPT ![i] =
            Spread(Spread(@, [f \in {field} |-> list]), [updatedAt |-> clock])]

\* projects[i][field][index] = updated; projects[i].updatedAt = new Date()
StoreUpdated(projects, i, field, index, updated, stamp) ==
    LET list == [projects[i][field] EXCEPT ![index] = updated]
    IN  [projects EXCEPT ![i] =
            Spread(Spread(@, [f \in {field} |-> list]), [updatedAt |-> stamp])]

\* splice(index, 0): nothing removed
StoreRemovedNone(projects, i, field, index, stamp) ==
    [projects EXCEPT ![i] = Spread(@, [updatedAt |-> stamp])]

\* projects[i][field].splice(index, 1); projects[i].updatedAt = new Date()
StoreRemoved(projects, i, field, index, stamp) ==
    LET list == Splice(projects[i][field], index)
    IN  [projects EXCEPT ![i] =
            Spread(Spread(@, [f \in {field} |-> list]), [updatedAt |-> stamp])]

RECURSIVE SumWordCount(_)
SumWordCount(stories) ==
    IF stories = <<>> THEN 0
    ELSE Head(stories).wordCount + SumWordCount(Tail(stories))

\* this.calculateProjectWordCount(id): the aggregate over the stored project
calculateProjectWordCount(id) ==
    LET index == FindIndexById(storage, id)
    IN  IF index = 0 THEN 0
        ELSE SumWordCount(ListOrEmpty(storage[index], "stories"))

\* a JavaScript string used as a condition: present and not empty
Truthy(data, key) == key \in DOMAIN data /\ data[key] # ""

\* updateProjectSync's merged project, with the recalculated word count
UpdatedProject(project, data, stamp1, stamp2, id) ==
    LET updated == Spread(Spread(project, data),
                          [updatedAt |-> stamp1, lastEditedAt |-> stamp2])
    IN  IF Truthy(data, "title") \/ Truthy(data, "description")
        THEN Spread(updated, [wordCount |-> calculateProjectWordCount(id)])
        ELSE updated

createProject ==
    /\ Called
    /\ nextId <= MaxIds
    /\ Len(storage) < MaxProjects
    /\ \E now \in Readings(clock) :
        LET data == [title |-> "Novel A", description |-> ""]
            project == NewProject(nextId, data, now)
        IN  /\ saveProjects(Append(getAllProjects, project))
            /\ clock' = now
            /\ call' = [op |-> "createProject"]
            /\ Return(project)
            /\ Emit(<< [name |-> "project-created", payload |-> project] >>)
    /\ nextId' = nextId + 1
    /\ prev' = storage
    /\ UNCHANGED <<live, gone>>

Created(field) == {e \in live : e.field = field}

createStory ==
    /\ Called
    /\ nextId <= MaxIds
    /\ Cardinality(Created("stories")) < MaxStories
    /\ \E title \in Titles, projectId \in 0..(nextId - 1), now \in Readings(clock) :
        LET data == [title |-> title, description |-> Undefined, projectId |-> projectId]
            story == NewStory(nextId, data, now)
            projects == getAllProjects
            projectIndex == FindIndexById(projects, projectId)
        IN  /\ clock' = now
            /\ call' = [op |-> "createStory", projectId |-> projectId]
            /\ IF projectIndex # 0 THEN Return(story) ELSE ret' = story
            /\ IF projectIndex # 0
               THEN /\ saveProjects(StoreStory(projects, projectIndex, story, now))
                    /\ live' = IF backendUp
                               THEN live \cup {[field |-> "stories", id |-> story.id,
                                                projectId |-> projectId]}
                               ELSE live
               ELSE /\ UNCHANGED <<storage, live>>
                    /\ saves' = 0
    /\ nextId' = nextId + 1
    /\ prev' = storage
    /\ Emit(<<>>)
    /\ UNCHANGED gone

createCharacter ==
    /\ Called
    /\ nextId <= MaxIds
    /\ Cardinality(Created("characters")) < MaxChars
    /\ \E projectId \in 0..(nextId - 1), now \in Readings(clock) :
        LET data == [name |-> "Hero", description |-> Undefined, projectId |-> projectId]
            character == NewCharacter(nextId, data, now)
            projects == getAllProjects
            projectIndex == FindIndexById(projects, projectId)
        IN  /\ clock' = now
            /\ call' = [op |-> "createCharacter", projectId |-> projectId]
            /\ IF projectIndex # 0 THEN Return(character) ELSE ret' = character
            /\ IF projectIndex # 0
               THEN /\ saveProjects(StoreCharacter(projects, projectIndex, character, now))
                    /\ live' = IF backendUp
                               THEN live \cup {[field |-> "characters", id |-> character.id,
                                                projectId |-> projectId]}
                               ELSE live
               ELSE /\ UNCHANGED <<storage, live>>
                    /\ saves' = 0
    /\ nextId' = nextId + 1
    /\ prev' = storage
    /\ Emit(<<>>)
    /\ UNCHANGED gone

\* updateProjectSync, its partial drawn from the set allowed
UpdateProject(allowed) ==
    /\ Called
    /\ \E id \in 0..(nextId - 1), data \in allowed :
        LET projects == getAllProjects
            index == FindIndexById(projects, id)
        IN  /\ call' = [op |-> "updateProjectSync", id |-> id, data |-> data]
            /\ IF index = 0
               THEN /\ ret' = Null
                    /\ saves' = 0
                    /\ Emit(<<>>)
                    /\ UNCHANGED <<storage, clock>>
               ELSE \E stamp1 \in Readings(clock) : \E stamp2 \in Readings(stamp1) :
                    LET updated == UpdatedProject(projects[index], data, stamp1, stamp2, id)
                    IN  /\ saveProjects([projects EXCEPT ![index] = updated])
                        /\ Emit(<< [name |-> "project-updated", payload |-> updated] >>)
                        /\ Return(updated)
                        /\ clock' = stamp2
    /\ prev' = storage
    /\ UNCHANGED <<nextId, live, gone>>

updateProjectSync == UpdateProject(ProjectUpdates)

\* the project written through updateProjectSync, which emits
UpdateNestedViaProjectSync(op, field, allowed) ==
    /\ Called
    /\ \E id \in 0..(nextId - 1), updates \in allowed :
        LET projects == getAllProjects
            i == FirstHolder(projects, field, id)
        IN  /\ call' = [op |-> op, id |-> id, updates |-> updates]
            /\ IF i = 0
               THEN /\ ret' = Null
                    /\ saves' = 0
                    /\ Emit(<<>>)
                    /\ UNCHANGED <<storage, clock>>
               ELSE \E stamp1 \in Readings(clock) : \E stamp2 \in Readings(stamp1) :
                    LET index == FindIndexById(projects[i][field], id)
                        updated == UpdatedEntity(projects[i][field][index], updates, stamp1)
                        stored == StoreUpdated(projects, i, field, index, updated, stamp2)
                    IN  /\ saveProjects(stored)
                        /\ Emit(<< [name |-> "project-updated", payload |-> stored[i]] >>)
                        /\ Return(updated)
                        /\ clock' = stamp2
    /\ prev' = storage
    /\ UNCHANGED <<nextId, live, gone>>

\* saveProjects placed after the loop, so that a miss saves too
UpdateNestedSavesOnMiss(op, field, allowed) ==
    /\ Called
    /\ \E id \in 0..(nextId - 1), updates \in allowed :
        LET projects == getAllProjects
            i == FirstHolder(projects, field, id)
        IN  /\ call' = [op |-> op, id |-> id, updates |-> updates]
            /\ IF i = 0
               THEN /\ ret' = Null
                    /\ saveProjects(projects)
                    /\ UNCHANGED clock
               ELSE \E stamp1 \in Readings(clock) : \E stamp2 \in Readings(stamp1) :
                    LET index == FindIndexById(projects[i][field], id)
                        updated == UpdatedEntity(projects[i][field][index], updates, stamp1)
                    IN  /\ saveProjects(StoreUpdated(projects, i, field, index, updated, stamp2))
                        /\ Return(updated)
                        /\ clock' = stamp2
    /\ prev' = storage
    /\ Emit(<<>>)
    /\ UNCHANGED <<nextId, live, gone>>

\* updateStory and updateCharacter: the same scan over another list
UpdateNested(op, field, allowed) ==
    /\ Called
    /\ \E id \in 0..(nextId - 1), updates \in allowed :
        LET projects == getAllProjects
            i == FirstHolder(projects, field, id)
        IN  /\ call' = [op |-> op, id |-> id, updates |-> updates]
            /\ IF i = 0
               THEN /\ ret' = Null
                    /\ saves' = 0
                    /\ UNCHANGED <<storage, clock>>
               ELSE \E stamp1 \in Readings(clock) : \E stamp2 \in Readings(stamp1) :
                    LET index == FindIndexById(projects[i][field], id)
                        updated == UpdatedEntity(projects[i][field][index], updates, stamp1)
                    IN  /\ saveProjects(StoreUpdated(projects, i, field, index, updated, stamp2))
                        /\ Return(updated)
                        /\ clock' = stamp2
    /\ prev' = storage
    /\ Emit(<<>>)
    /\ UNCHANGED <<nextId, live, gone>>

updateStory == UpdateNested("updateStory", "stories", StoryUpdates)

updateCharacter == UpdateNested("updateCharacter", "characters", CharacterUpdates)

\* deleteStory and deleteCharacter: the same scan over another list
DeleteNested(op, field) ==
    /\ Called
    /\ \E id \in 0..(nextId - 1) :
        LET projects == getAllProjects
            i == FirstHolder(projects, field, id)
        IN  /\ call' = [op |-> op, id |-> id, again |-> id \in gone]
            /\ IF i = 0
               THEN /\ ret' = FALSE
                    /\ saves' = 0
                    /\ UNCHANGED <<storage, clock, live, gone>>
               ELSE \E stamp \in Readings(clock) :
                    LET index == FindIndexById(projects[i][field], id)
                    IN  /\ saveProjects(StoreRemoved(projects, i, field, index, stamp))
                        /\ Return(TRUE)
                        /\ clock' = stamp
                        /\ live' = IF backendUp
                                   THEN {e \in live : ~(e.field = field /\ e.id = id)}
                                   ELSE live
                        /\ gone' = IF backendUp THEN gone \cup {id} ELSE gone
    /\ prev' = storage
    /\ Emit(<<>>)
    /\ UNCHANGED nextId

deleteStory == DeleteNested("deleteStory", "stories")

deleteCharacter == DeleteNested("deleteCharacter", "characters")

\* the backend becomes unavailable, or available again, between two calls
backendChanges ==
    /\ backendUp' = ~backendUp
    /\ call' = [op |-> "none"]
    /\ ret' = Null
    /\ prev' = storage
    /\ saves' = 0
    /\ Emit(<<>>)
    /\ UNCHANGED <<storage, nextId, live, gone, clock, calls, companionVars, asyncVars,
                   listeners>>

\* on(eventName, handler): one more listener, after those already there
on ==
    /\ calls < MaxCalls
    /\ calls' = calls + 1
    /\ \E eventName \in EventNames :
        listeners' = Append(listeners, [id |-> Len(listeners) + 1,
                                        name |-> eventName])
    /\ UNCHANGED <<storeVars, companionVars, asyncVars, clock, backendUp>>

\* the same operations called with partial objects of any shape
updateProjectSyncAny == UpdateProject(AnyProjectUpdates)

updateStoryAny == UpdateNested("updateStory", "stories", AnyStoryUpdates)

updateCharacterAny ==
    UpdateNested("updateCharacter", "characters", AnyCharacterUpdates)

----------------------------------------------------------------------------
(* Writing companion: personalities and the writing session *)

Profile(id, name, traits, specialties, style, active) ==
    [id |-> id, name |-> name, role |-> id, traits |-> traits,
     specialties |-> specialties, communicationStyle |-> style,
     isActive |-> active]

Traits(e, c, cr, a) ==
    [encouraging |-> e, critical |-> c, creative |-> cr, analytical |-> a]

\* two profiles flagged active
newPersonalitiesTwoActive ==
    << Profile("mentor", "Wise Mentor", Traits(80, 20, 60, 70),
               <<"guidance", "motivation", "story_structure">>, "supportive", TRUE),
       Profile("critic", "Analytical Critic", Traits(30, 90, 40, 95),
               <<"grammar", "style_analysis", "plot_holes">>, "formal", TRUE),
       Profile("cheerleader", "Enthusiastic Cheerleader", Traits(95, 10, 75, 30),
               <<"motivation", "confidence_building", "encouragement">>, "playful", FALSE),
       Profile("collaborator", "Creative Collaborator", Traits(70, 40, 90, 60),
               <<"brainstorming", "idea_generation", "creative_prompts">>, "casual", FALSE),
       Profile("editor", "Professional Editor", Traits(50, 80, 30, 85),
               <<"editing", "proofreading", "structure">>, "direct", FALSE) >>

\* this.personalities = [ ... ]
newPersonalities ==
    << Profile("mentor", "Wise Mentor", Traits(80, 20, 60, 70),
               <<"guidance", "motivation", "story_structure">>, "supportive", TRUE),
       Profile("critic", "Analytical Critic", Traits(30, 90, 40, 95),
               <<"grammar", "style_analysis", "plot_holes">>, "formal", FALSE),
       Profile("cheerleader", "Enthusiastic Cheerleader", Traits(95, 10, 75, 30),
               <<"motivation", "confidence_building", "encouragement">>, "playful", FALSE),
       Profile("collaborator", "Creative Collaborator", Traits(70, 40, 90, 60),
               <<"brainstorming", "idea_generation", "creative_prompts">>, "casual", FALSE),
       Profile("editor", "Professional Editor", Traits(50, 80, 30, 85),
               <<"editing", "proofreading", "structure">>, "direct", FALSE) >>

\* one more companion call, while the model's budget of calls lasts
CompanionCalled ==
    /\ calls < MaxCalls
    /\ calls' = calls + 1
    /\ UNCHANGED <<storeVars, asyncVars, backendUp, listeners>>

PersonalityIds == {newPersonalities[i].id : i \in 1..Len(newPersonalities)}
UnknownIds == {"villain", ""}

ActiveIds(ps) == {ps[i].id : i \in {j \in 1..Len(ps) : ps[j].isActive}}

\* the registry narrowed to the chosen profile
SetActiveNarrowing(ps, id) ==
    IF \E i \in 1..Len(ps) : ps[i].id = id
    THEN SelectSeq([i \in 1..Len(ps) |-> [ps[i] EXCEPT !.isActive = (ps[i].id = id)]],
                   LAMBDA profile : profile.isActive)
    ELSE ps

\* an unknown id changes nothing; a known one becomes the only active profile
SetActive(ps, id) ==
    IF \E i \in 1..Len(ps) : ps[i].id = id
    THEN [i \in 1..Len(ps) |-> [ps[i] EXCEPT !.isActive = (ps[i].id = id)]]
    ELSE ps

setActivePersonality ==
    /\ CompanionCalled
    /\ \E id \in PersonalityIds \cup UnknownIds :
        /\ personalities' = SetActive(personalities, id)
        /\ ccall' = [op |-> "setActivePersonality", id |-> id,
                     wasActive |-> ActiveIds(personalities)]
    /\ UNCHANGED <<currentSession, ended, checkpoint, clock, phase>>

\* Math.random().toString(36).substring(2, 9)
RandomSuffixes == {"k3x9q2a", "p0d7mzc"}

MoodVocabulary == {"focused", "neutral", "tired"}
MoodCandidates == MoodVocabulary \cup {"furious", Undefined}

\* candidate if it is in the vocabulary, otherwise nothing
validateMood(mood) == IF mood \in MoodVocabulary THEN mood ELSE Undefined

\* a text of n words, and the number of words of a text
Text(n) == [i \in 1..n |-> "word"]
CountWords(content) == Len(content)

Max(a, b) == IF a >= b THEN a ELSE b

\* the candidate mood stored as given
NewSessionAnyMood(title, contentId, mood, now, rnd) ==
    [id |-> <<"session", now, rnd>>, title |-> title, contentId |-> contentId,
     mood |-> mood, startTime |-> now, content |-> Text(0),
     wordCount |-> 0, totalWords |-> 0, wordsAdded |-> 0, timeSpent |-> 0,
     productivity |-> 0, suggestions |-> <<>>, feedback |-> <<>>,
     aiInteractions |-> 0, isActive |-> TRUE]

\* wordsAdded left at a placeholder below zero
NewSessionUnset(title, contentId, mood, now, rnd) ==
    [id |-> <<"session", now, rnd>>, title |-> title, contentId |-> contentId,
     mood |-> OrElse(validateMood(mood), "neutral"), startTime |-> now,
     content |-> Text(0), wordCount |-> 0, totalWords |-> 0, wordsAdded |-> -1,
     timeSpent |-> 0, productivity |-> 0, suggestions |-> <<>>,
     feedback |-> <<>>, aiInteractions |-> 0, isActive |-> TRUE]

\* const session: WritingSession = { ... }
NewSession(title, contentId, mood, now, rnd) ==
    [id |-> <<"session", now, rnd>>, title |-> title, contentId |-> contentId,
     mood |-> OrElse(validateMood(mood), "neutral"), startTime |-> now,
     content |-> Text(0), wordCount |-> 0, totalWords |-> 0, wordsAdded |-> 0,
     timeSpent |-> 0, productivity |-> 0, suggestions |-> <<>>,
     feedback |-> <<>>, aiInteractions |-> 0, isActive |-> TRUE]

\* totalWords following the current count
WithContentTracking(session, content) ==
    LET wordCount == CountWords(content)
    IN  [session EXCEPT !.content = content,
                        !.wordCount = wordCount,
                        !.wordsAdded = Max(0, wordCount - session.totalWords),
                        !.totalWords = wordCount]

\* the derived metrics for new content
WithContent(session, content) ==
    LET wordCount == CountWords(content)
        wordsAdded == Max(0, wordCount - session.totalWords)
    IN  [session EXCEPT !.content = content,
                        !.wordCount = wordCount,
                        !.wordsAdded = wordsAdded,
                        !.totalWords = session.totalWords + wordsAdded]

Productivity(wordsAdded, timeSpent) ==
    IF timeSpent = 0 THEN 0 ELSE wordsAdded \div timeSpent

\* the session closed at endTime
Closed(session, endTime) ==
    LET timeSpent == endTime - session.startTime
    IN  Spread(session, [endTime |-> endTime, timeSpent |-> timeSpent,
                         productivity |-> Productivity(session.wordsAdded, timeSpent),
                         isActive |-> FALSE])

\* the last session handed out when none is held
getCurrentSessionOrLast == IF currentSession = Null THEN ended ELSE currentSession

\* return this.currentSession;
getCurrentSession == currentSession

\* Idle -> Active
startWritingSession ==
    /\ CompanionCalled
    /\ currentSession = Null
    /\ \E contentId \in {Undefined, "story-1"}, mood \in MoodCandidates,
          now \in Readings(clock), rnd \in RandomSuffixes :
        /\ currentSession' = NewSession("Morning pages", contentId, mood, now, rnd)
        /\ ccall' = [op |-> "startWritingSession", mood |-> mood]
        /\ clock' = now
    /\ checkpoint' = 0
    /\ phase' = "Active"
    /\ UNCHANGED <<personalities, ended>>

\* the session's content changes
updateSessionContent ==
    /\ CompanionCalled
    /\ currentSession # Null
    /\ \E n \in 0..MaxWords :
        /\ currentSession' = WithContent(currentSession, Text(n))
        /\ ccall' = [op |-> "updateSessionContent", words |-> n]
    /\ checkpoint' = currentSession.totalWords
    /\ UNCHANGED <<personalities, ended, clock, phase>>

\* Active -> Idle
endWritingSession ==
    /\ CompanionCalled
    /\ currentSession # Null
    /\ \E now \in Readings(clock) :
        /\ ended' = Closed(currentSession, now)
        /\ clock' = now
    /\ currentSession' = Null
    /\ ccall' = [op |-> "endWritingSession"]
    /\ phase' = "Idle"
    /\ UNCHANGED <<personalities, checkpoint>>

----------------------------------------------------------------------------
(* Properties of the ProjectStore *)

FieldOf(op) == IF op \in {"createStory", "updateStory", "deleteStory"}
               THEN "stories" ELSE "characters"

\* where in a snapshot the entity with this id sits: <<project, position>>
Places(projects, field, id) ==
    {pl \in (1..Len(projects)) \X (1..MaxIds) :
        /\ field \in DOMAIN projects[pl[1]]
        /\ pl[2] <= Len(projects[pl[1]][field])
        /\ projects[pl[1]][field][pl[2]].id = id}

Found == call.op \in {"updateStory", "updateCharacter"} /\ ret # Null

\* the project the last update or delete call changed
Holder == FirstHolder(prev, FieldOf(call.op), call.id)

\* C1: every story (character) that a createStory (createCharacter) call
\* stored under an existing project, and that no delete call has removed,
\* is in the persisted snapshot exactly once, in the list of that project.
C1_CreatedStay ==
    \A e \in live :
        /\ Cardinality(Places(storage, e.field, e.id)) = 1
        /\ \A pl \in Places(storage, e.field, e.id) : storage[pl[1]].id = e.projectId

\* a later call wrote the snapshot back while a created story was in it
C1_Witness ==
    /\ call.op \in {"updateProjectSync", "createCharacter", "updateCharacter"}
    /\ saves = 1
    /\ \E e \in live : e.field = "stories"

\* C2 as claimed: updateStory(S.id, {content: C}) on the only story S of a
\* created project P leaves exactly one story under P, with content C, and
\* P.updatedAt later than before the call.
C2_AsClaimed ==
    (/\ call.op = "updateStory"
     /\ ret # Null
     /\ "content" \in DOMAIN call.updates
     /\ Len(prev[Holder].stories) = 1)
    => /\ Len(storage[Holder].stories) = 1
       /\ storage[Holder].stories[1].id = call.id
       /\ storage[Holder].stories[1].content = call.updates.content
       /\ storage[Holder].updatedAt > prev[Holder].updatedAt

\* C3 as claimed: a created project is in the persisted collection exactly
\* once, and updateProjectSync(p.id, {title: T}) returns and persists title T
\* with updatedAt strictly later than before the call.
C3_AsClaimed ==
    /\ call.op = "createProject" =>
          Cardinality({i \in 1..Len(storage) : storage[i].id = ret.id}) = 1
    /\ (call.op = "updateProjectSync" /\ ret # Null /\ "title" \in DOMAIN call.data) =>
          LET index == FindIndexById(prev, call.id)
          IN  /\ ret.title = call.data.title
              /\ storage[index] = ret
              /\ ret.updatedAt > prev[index].updatedAt

\* C4: updateStory(s.id, {title: T2}) on a stored story returns a story with
\* title T2 and leaves every other story of that project as it was, in every
\* field.
C4_SiblingsUnchanged ==
    (call.op = "updateStory" /\ ret # Null /\ "title" \in DOMAIN call.updates) =>
        LET before == prev[Holder].stories
            after == storage[Holder].stories
            index == FindIndexById(before, call.id)
        IN  /\ ret.title = call.updates.title
            /\ after[index] = ret
            /\ Len(after) = Len(before)
            /\ \A j \in 1..Len(before) : j # index => after[j] = before[j]

C4_Witness ==
    /\ call.op = "updateStory"
    /\ ret # Null
    /\ "title" \in DOMAIN call.updates
    /\ Len(prev[Holder].stories) >= 2
    /\ storage[Holder].stories # prev[Holder].stories

\* C5: deleteStory (deleteCharacter) on an id that is stored returns true and
\* removes it; called again on that id it returns false, does not save, and
\* leaves the persisted snapshot as it was.
C5_DeleteTwice ==
    call.op \in {"deleteStory", "deleteCharacter"} =>
        /\ Holder # 0 =>
              /\ ret = TRUE
              /\ Places(storage, FieldOf(call.op), call.id) = {}
              /\ Len(storage[Holder][FieldOf(call.op)])
                    = Len(prev[Holder][FieldOf(call.op)]) - 1
        /\ call.again => /\ ret = FALSE
                         /\ saves = 0
                         /\ storage = prev

C5_Witness ==
    /\ call.op = "deleteStory"
    /\ call.again
    /\ ret = FALSE
    /\ \E i \in 1..Len(storage) :
          "stories" \in DOMAIN storage[i] /\ storage[i].stories = <<>>

\* C7: right after a createStory, updateStory, createCharacter or
\* updateCharacter that found its project, the project's updatedAt is at or
\* after the updatedAt of the story or character created or updated.
C7_ProjectNotOlder ==
    /\ (call.op \in {"createStory", "createCharacter"} /\ saves = 1) =>
          storage[FindIndexById(storage, call.projectId)].updatedAt >= ret.updatedAt
    /\ Found => storage[Holder].updatedAt >= ret.updatedAt

\* the clock moved between the story's stamp and the project's
C7_Witness ==
    /\ call.op = "updateStory"
    /\ ret # Null
    /\ storage[Holder].updatedAt > ret.updatedAt

\* C12: updateProjectSync, updateStory and updateCharacter on an id that
\* nothing stored has return null, do not save, leave the persisted snapshot
\* as it was and emit no event.
C12_MissReturnsNull ==
    LET quiet == /\ ret = Null
                 /\ saves = 0
                 /\ storage = prev
                 /\ emitted = <<>>
    IN  /\ (/\ call.op = "updateProjectSync"
            /\ \A i \in 1..Len(prev) : prev[i].id # call.id) => quiet
        /\ (/\ call.op \in {"updateStory", "updateCharacter"}
            /\ Places(prev, FieldOf(call.op), call.id) = {}) => quiet

\* updateStory probed with the id of a project, while stories are stored
C12_Witness ==
    /\ call.op = "updateStory"
    /\ ret = Null
    /\ \E i \in 1..Len(storage) :
          /\ storage[i].id = call.id
          /\ "stories" \in DOMAIN storage[i]
          /\ storage[i].stories # <<>>

\* ids that generateId handed to a create call which found no project
OrphanIds ==
    (1..(nextId - 1))
        \ ({storage[i].id : i \in 1..Len(storage)} \cup {e.id : e \in live} \cup gone)

\* C13: createStory (createCharacter) with a projectId that no project has
\* returns the entity it built, does not save and leaves the persisted
\* snapshot as it was; the entity is in no project, and a later update or
\* delete on its id returns null or false.
C13_Orphan ==
    /\ (/\ call.op \in {"createStory", "createCharacter"}
        /\ \A i \in 1..Len(prev) : prev[i].id # call.projectId) =>
            /\ ret.id = nextId - 1
            /\ ret.projectId = call.projectId
            /\ ret.id \in OrphanIds
            /\ saves = 0
            /\ storage = prev
    /\ \A id \in OrphanIds :
            /\ Places(storage, "stories", id) = {}
            /\ Places(storage, "characters", id) = {}
    /\ (call.op \in {"updateStory", "updateCharacter"} /\ call.id \in OrphanIds) =>
            ret = Null
    /\ (call.op \in {"deleteStory", "deleteCharacter"} /\ call.id \in OrphanIds) =>
            ret = FALSE

\* an orphan story is probed while a project with stories exists
C13_Witness ==
    /\ call.op \in {"updateStory", "deleteStory"}
    /\ call.id \in OrphanIds
    /\ \E e \in live : e.field = "stories"

\* no two elements of the list share an id
UniqueIds(list) ==
    \A i, j \in 1..Len(list) : list[i].id = list[j].id => i = j

\* C11 as claimed: in every persisted snapshot, whatever partial field sets
\* the update calls were given, no two projects share an id and within a
\* project no two stories and no two characters share an id.
C11_AsClaimed ==
    /\ UniqueIds(storage)
    /\ \A i \in 1..Len(storage) :
          /\ UniqueIds(ListOrEmpty(storage[i], "stories"))
          /\ UniqueIds(ListOrEmpty(storage[i], "characters"))

\* C15 as claimed: the wordCount of the project updateProjectSync returns is
\* the recomputed aggregate when the partial changes title or description
\* (also to an empty one) and the stored wordCount otherwise, whatever fields
\* the partial carries.
C15_AsClaimed ==
    (call.op = "updateProjectSync" /\ ret # Null) =>
        LET before == prev[FindIndexById(prev, call.id)]
            changes(key) == key \in DOMAIN call.data /\ call.data[key] # before[key]
            aggregate == SumWordCount(ListOrEmpty(before, "stories"))
        IN  ret.wordCount = IF changes("title") \/ changes("description")
                            THEN aggregate ELSE before.wordCount

----------------------------------------------------------------------------
(* The operations declared async, called without awaiting the result.      *)
(* A call runs its body at once up to the first point where it suspends;   *)
(* what follows runs later, after whatever else the caller did meanwhile.  *)

\* the names of the two pending calls
Tasks == {"a", "b"}

IdleTask == [pc |-> "idle", request |-> Null, loaded |-> <<>>, result |-> Null]

\* a body that awaits the loaded snapshot before it goes on
SuspendsBeforeSave(step) == step \in {"save", "resolve"}

\* the bodies have no await: getAllProjects and saveProjects run in one
\* go, and only the promise's resolution reaches the caller later
SuspendsBefore(step) == step = "resolve"

\* the arguments of a call of an async operation
AsyncRequests ==
    LET ids == 0..(nextId - 1)
    IN  {[op |-> "createStory", id |-> nextId, projectId |-> p, title |-> title] :
            p \in ids, title \in Titles}
        \cup {[op |-> "createCharacter", id |-> nextId, projectId |-> p] : p \in ids}
        \cup {[op |-> "updateStory", id |-> k, updates |-> u] :
                k \in ids, u \in StoryUpdates}
        \cup {[op |-> "updateCharacter", id |-> k, updates |-> u] :
                k \in ids, u \in CharacterUpdates}
        \cup {[op |-> "deleteCharacter", id |-> k] : k \in ids}

Creates(request) == request.op \in {"createStory", "createCharacter"}

\* projectIndex, or the project the loop stops at; 0 when there is none
Target(request, projects) ==
    IF Creates(request)
    THEN FindIndexById(projects, request.projectId)
    ELSE FirstHolder(projects, FieldOf(request.op), request.id)

\* the entity a create call builds before it loads the projects
Built(request, now) ==
    IF request.op = "createStory"
    THEN NewStory(request.id, [title |-> request.title, description |-> Undefined,
                               projectId |-> request.projectId], now)
    ELSE NewCharacter(request.id, [name |-> "Hero", description |-> Undefined,
                                   projectId |-> request.projectId], now)

\* the projects the call hands to saveProjects, h being its Target
Modified(request, projects, h, now) ==
    LET field == FieldOf(request.op)
        index == FindIndexById(projects[h][field], request.id)
    IN  CASE request.op = "createStory" ->
                StoreStory(projects, h, Built(request, now), now)
          [] request.op = "createCharacter" ->
                StoreCharacter(projects, h, Built(request, now), now)
          [] request.op \in {"updateStory", "updateCharacter"} ->
                StoreUpdated(projects, h, field, index,
                    UpdatedEntity(projects[h][field][index], request.updates, now), now)
          [] request.op = "deleteCharacter" ->
                StoreRemoved(projects, h, field, index, now)

\* what the promise resolves to
Result(request, projects, h, now) ==
    CASE Creates(request) -> Built(request, now)
      [] request.op \in {"updateStory", "updateCharacter"} ->
            IF h = 0 THEN Null
            ELSE LET field == FieldOf(request.op)
                     index == FindIndexById(projects[h][field], request.id)
                 IN  UpdatedEntity(projects[h][field][index], request.updates, now)
      [] request.op = "deleteCharacter" -> h # 0

\* one step of task t on st = [storage, tasks, steps]
Exec(st, t, now) ==
    LET task == st.tasks[t]
        request == task.request
        projects == task.loaded
        h == Target(request, projects)
    IN  CASE task.pc = "load" ->
                [st EXCEPT !.tasks[t].loaded = st.storage,
                           !.tasks[t].pc = "save",
                           !.steps = Append(@, [task |-> t, step |-> "load"])]
          [] task.pc = "save" /\ h = 0 ->
                [st EXCEPT !.tasks[t].result = Result(request, projects, h, now),
                           !.tasks[t].pc = "resolve"]
          [] task.pc = "save" /\ h # 0 ->
                [st EXCEPT !.storage = Serialize(Modified(request, projects, h, now)),
                           !.tasks[t].result = Result(request, projects, h, now),
                           !.tasks[t].pc = "resolve",
                           !.steps = Append(@, [task |-> t, step |-> "save"])]
          [] task.pc = "resolve" ->
                [st EXCEPT !.tasks[t].pc = "resolved"]

\* task t runs until it suspends or is over
RECURSIVE RunTask(_, _, _)
RunTask(st, t, now) ==
    LET after == Exec(st, t, now)
        pc == after.tasks[t].pc
    IN  IF pc = "resolved" \/ SuspendsBefore(pc) THEN after ELSE RunTask(after, t, now)

\* the state after task t ran from `from`
Ran(from, t, now) ==
    LET after == RunTask(from, t, now)
    IN  /\ storage' = after.storage
        /\ tasks' = after.tasks
        /\ steps' = after.steps
        /\ clock' = now
        /\ call' = [op |-> "none"]
        /\ ret' = Null
        /\ prev' = storage
        /\ saves' = 0
        /\ Emit(<<>>)
        /\ UNCHANGED <<live, gone, companionVars, backendUp, listeners>>

\* the caller calls an async operation and keeps the promise
Issue(t) ==
    /\ calls < MaxCalls
    /\ calls' = calls + 1
    /\ tasks[t].pc = "idle"
    /\ \E request \in AsyncRequests, now \in Readings(clock) :
        /\ Creates(request) => nextId <= MaxIds
        /\ nextId' = IF Creates(request) THEN nextId + 1 ELSE nextId
        /\ Ran([storage |-> storage,
                tasks |-> [tasks EXCEPT ![t].request = request, ![t].pc = "load"],
                steps |-> steps], t, now)

\* a suspended call goes on; resolving the promise reads no clock
Resume(t) ==
    /\ tasks[t].pc \in {"load", "save", "resolve"}
    /\ \E now \in IF tasks[t].pc = "resolve" THEN {clock} ELSE Readings(clock) :
        Ran([storage |-> storage, tasks |-> tasks, steps |-> steps], t, now)
    /\ UNCHANGED <<nextId, calls>>

issueAsync == \E t \in Tasks : Issue(t)

resumeAsync == \E t \in Tasks : Resume(t)

\* no load or save of another task between a task's load and its save
Uninterrupted(log) ==
    \A i, k \in 1..Len(log) :
        (/\ i < k
         /\ log[i].task = log[k].task
         /\ log[i].step = "load"
         /\ log[k].step = "save")
        => \A j \in (i + 1)..(k - 1) : log[j].task = log[i].task

PastSave(t) == tasks[t].pc \in {"resolve", "resolved"}

\* another call deleted the character
Deleted(id) ==
    \E u \in Tasks : /\ tasks[u].request.op = "deleteCharacter"
                     /\ tasks[u].request.id = id
                     /\ tasks[u].result

\* the persisted snapshot shows what the call of task t did
Reflects(t) ==
    LET request == tasks[t].request
        field == FieldOf(request.op)
        places == Places(storage, field, request.id)
    IN  CASE Creates(request) ->
                FindIndexById(storage, request.projectId) # 0
                    => (places # {} \/ Deleted(request.id))
          [] request.op \in {"updateStory", "updateCharacter"} ->
                \A pl \in places : \A key \in DOMAIN request.updates :
                    storage[pl[1]][field][pl[2]][key] = request.updates[key]
          [] request.op = "deleteCharacter" ->
                places = {}

\* C20: an async operation loads, modifies and saves in one uninterrupted
\* step: of two calls made without awaiting the first, neither is suspended
\* between its load and its save, no load or save of one falls between the
\* load and the save of the other, and the persisted snapshot reflects both.
C20_OneStep ==
    /\ \A t \in Tasks : tasks[t].pc \notin {"load", "save"}
    /\ Uninterrupted(steps)
    /\ (\A t \in Tasks : PastSave(t)) => \A t \in Tasks : Reflects(t)

\* b was called while a's promise was pending, and updated the story a made
C20_Witness ==
    /\ \A t \in Tasks : PastSave(t)
    /\ Len(steps) = 4
    /\ tasks["a"].request.op = "createStory"
    /\ tasks["b"].request.op = "updateStory"
    /\ tasks["b"].request.id = tasks["a"].request.id
    /\ tasks["b"].result # Null
    /\ steps[1].task = "a"

NestedOps == {"createStory", "updateStory", "deleteStory",
              "createCharacter", "updateCharacter", "deleteCharacter"}

\* the project a story or character call that saved has changed
Changed ==
    IF call.op \in {"createStory", "createCharacter"}
    THEN FindIndexById(prev, call.projectId)
    ELSE Holder

\* the list a story call has no business with, and the other way round
OtherField(op) == IF FieldOf(op) = "stories" THEN "characters" ELSE "stories"

\* C22: a story or character create, update or delete that finds its target
\* changes only the first project in snapshot order that holds the target:
\* every other project is persisted as it was, updatedAt included, the
\* projects keep their number and order, and in the changed project the
\* list of the other kind is as it was.
C22_OnlyOneProject ==
    (call.op \in NestedOps /\ saves = 1) =>
        /\ Changed # 0
        /\ Len(storage) = Len(prev)
        /\ \A i \in 1..Len(prev) :
              /\ storage[i].id = prev[i].id
              /\ i # Changed => storage[i] = prev[i]
        /\ LET other == OtherField(call.op)
           IN  /\ other \in DOMAIN storage[Changed] <=> other \in DOMAIN prev[Changed]
               /\ other \in DOMAIN prev[Changed] =>
                     storage[Changed][other] = prev[Changed][other]

\* the target was in the second of two projects
C22_Witness ==
    /\ call.op \in {"updateStory", "deleteStory", "updateCharacter", "deleteCharacter"}
    /\ saves = 1
    /\ Len(prev) = 2
    /\ Changed = 2
    /\ storage[2] # prev[2]

\* C23: a project's stories list keeps creation order: createStory under
\* an existing project puts the new story last (after nothing, when the
\* project had no list), updateStory replaces the story at its position,
\* deleteStory removes that one element, and every other story stays in
\* its place relative to the others. The same holds for characters.
C23_OrderKept ==
    (call.op \in NestedOps /\ saves = 1) =>
        LET field == FieldOf(call.op)
            before == ListOrEmpty(prev[Changed], field)
            after == storage[Changed][field]
            index == FindIndexById(before, call.id)
        IN  CASE call.op \in {"createStory", "createCharacter"} ->
                    /\ Len(after) = Len(before) + 1
                    /\ SubSeq(after, 1, Len(before)) = before
                    /\ after[Len(after)] = Stringify(ret)
              [] call.op \in {"updateStory", "updateCharacter"} ->
                    /\ Len(after) = Len(before)
                    /\ after[index] = Stringify(ret)
                    /\ \A j \in 1..Len(before) : j # index => after[j] = before[j]
              [] call.op \in {"deleteStory", "deleteCharacter"} ->
                    /\ Len(after) = Len(before) - 1
                    /\ \A j \in 1..Len(after) :
                          after[j] = IF j < index THEN before[j] ELSE before[j + 1]

\* the first of two stories was deleted and the second took its place
C23_Witness ==
    /\ call.op = "deleteStory"
    /\ saves = 1
    /\ Len(prev[Changed].stories) = 2
    /\ prev[Changed].stories[1].id = call.id
    /\ storage[Changed].stories = << prev[Changed].stories[2] >>

\* the listeners that were registered when the last call was made
Present == 1..audience

\* the positions in received of the deliveries to listener i
DeliveriesTo(i) == {k \in 1..Len(received) : received[k].listener = listeners[i].id}

\* C24: emit delivers the payload to every listener registered for the
\* event name when the call is made, once each and in registration order,
\* all of it by the time the emitting operation has returned; a listener
\* registered after the emit gets nothing for it, and neither does a
\* listener of another event name.
C24_Delivery ==
    /\ emitted = <<>> => received = <<>>
    /\ emitted # <<>> =>
          /\ \A i \in 1..Len(listeners) :
                Cardinality(DeliveriesTo(i)) =
                    IF i \in Present /\ listeners[i].name = emitted[1].name
                    THEN 1 ELSE 0
          /\ \A k \in 1..Len(received) :
                /\ received[k].name = emitted[1].name
                /\ received[k].payload = emitted[1].payload
                /\ \E i \in Present : listeners[i].id = received[k].listener
          /\ \A i, j \in 1..Len(listeners) : \A k \in DeliveriesTo(i), m \in DeliveriesTo(j) :
                i < j => k < m

\* two listeners got the update, the one registered first before the other
C24_Witness ==
    /\ call.op = "updateProjectSync"
    /\ Len(emitted) = 1
    /\ Len(listeners) = 2
    /\ received = << [listener |-> 1, name |-> "project-updated", payload |-> ret],
                     [listener |-> 2, name |-> "project-updated", payload |-> ret] >>

\* a call whose saveProjects threw
SaveFailed == saves = 1 /\ ~backendUp

\* C14: when saveProjects fails during a mutation, the caller gets the
\* PersistenceFailure instead of a result, the persisted snapshot is the one
\* from before the call, and no event is emitted.
C14_FailurePropagates ==
    SaveFailed => /\ ret = PersistenceFailure
                  /\ storage = prev
                  /\ emitted = <<>>

C14_Witness ==
    /\ SaveFailed
    /\ call.op = "updateProjectSync"
    /\ ret = PersistenceFailure

\* C16: createProject emits one project-created and an updateProjectSync
\* that finds its id one project-updated, with the project as persisted for
\* payload and only once saveProjects has committed it; the story and
\* character operations emit nothing.
C16_Events ==
    /\ (call.op = "createProject" /\ backendUp) =>
          /\ emitted = << [name |-> "project-created", payload |-> ret] >>
          /\ storage[Len(storage)] = ret
    /\ (call.op = "updateProjectSync" /\ saves = 1 /\ backendUp) =>
          /\ emitted = << [name |-> "project-updated", payload |-> ret] >>
          /\ storage[FindIndexById(prev, call.id)] = ret
    /\ call.op \in NestedOps => emitted = <<>>
    /\ emitted # <<>> => /\ Len(emitted) = 1
                         /\ saves = 1
                         /\ \E i \in 1..Len(storage) : storage[i] = emitted[1].payload

\* an update of a project that holds a story emitted its event
C16_Witness ==
    /\ call.op = "updateProjectSync"
    /\ Len(emitted) = 1
    /\ emitted[1].name = "project-updated"
    /\ \E e \in live : e.projectId = call.id

\* PersistenceBackend.loadProjects: the persisted form read back
loadProjects == getAllProjects

----------------------------------------------------------------------------
(* Properties of the writing companion *)

\* C6: exactly one of the five personalities is active, and a
\* setActivePersonality call with an unknown id leaves the active one as it
\* was before the call.
C6_OneActive ==
    /\ Len(personalities) = 5
    /\ Cardinality({i \in 1..Len(personalities) : personalities[i].isActive}) = 1
    /\ (ccall.op = "setActivePersonality" /\ ccall.id \notin PersonalityIds) =>
          ActiveIds(personalities) = ccall.wasActive

\* an unknown id arrives when the active personality is no longer the mentor
C6_Witness ==
    /\ ccall.op = "setActivePersonality"
    /\ ccall.id \in UnknownIds
    /\ ActiveIds(personalities) = {"critic"}

\* C9: a session's wordsAdded is never below 0; it is 0 at the start and
\* after a content change it is max(0, wordCount - totalWords as it was at
\* the last checkpoint), also when the content shrank below that checkpoint.
C9_WordsAddedNotNegative ==
    /\ currentSession # Null =>
          /\ currentSession.wordsAdded >= 0
          /\ currentSession.wordsAdded
                = Max(0, currentSession.wordCount - checkpoint)
    /\ ended # Null => ended.wordsAdded >= 0
    /\ ccall.op = "startWritingSession" => currentSession.wordsAdded = 0

\* the content shrank below the checkpoint
C9_Witness ==
    /\ ccall.op = "updateSessionContent"
    /\ currentSession # Null
    /\ checkpoint > 0
    /\ currentSession.wordCount < checkpoint
    /\ currentSession.wordsAdded = 0

\* C10: the session startWritingSession builds has the candidate mood when
\* the candidate is in the vocabulary and "neutral" otherwise (a candidate
\* outside the vocabulary, or none); a session's mood is always in the
\* vocabulary.
C10_MoodValidated ==
    /\ ccall.op = "startWritingSession" =>
          /\ ccall.mood \in MoodVocabulary => currentSession.mood = ccall.mood
          /\ ccall.mood \notin MoodVocabulary => currentSession.mood = "neutral"
    /\ currentSession # Null => currentSession.mood \in MoodVocabulary
    /\ ended # Null => ended.mood \in MoodVocabulary

C10_Witness ==
    /\ ccall.op = "startWritingSession"
    /\ ccall.mood = "furious"
    /\ currentSession.mood = "neutral"

----------------------------------------------------------------------------
\* C18: getCurrentSession is null exactly when the tracker is Idle; the
\* session it returns right after startWritingSession is active with
\* wordCount, totalWords, wordsAdded, timeSpent and productivity all 0; the
\* end operation sets endTime and timeSpent = endTime - startTime, clears
\* isActive and leaves getCurrentSession null.
C18_CurrentSession ==
    /\ (getCurrentSession = Null) <=> (phase = "Idle")
    /\ ccall.op = "startWritingSession" =>
          /\ getCurrentSession # Null
          /\ getCurrentSession.isActive
          /\ \A metric \in {"wordCount", "totalWords", "wordsAdded",
                             "timeSpent", "productivity"} :
                getCurrentSession[metric] = 0
    /\ ccall.op = "endWritingSession" =>
          /\ getCurrentSession = Null
          /\ "endTime" \in DOMAIN ended
          /\ ended.timeSpent = ended.endTime - ended.startTime
          /\ ~ended.isActive
    /\ phase = "Idle" => (ended = Null \/ ~ended.isActive)

\* a session that took time and words has been ended
C18_Witness ==
    /\ ccall.op = "endWritingSession"
    /\ phase = "Idle"
    /\ ended.timeSpent > 0
    /\ ended.totalWords > 0

\* C19: within one session totalWords never decreases: after every content
\* change, deletions included, it is at least what it was before the change.
C19_TotalWordsMonotonic ==
    getCurrentSession # Null => getCurrentSession.totalWords >= checkpoint

\* content shrank below the words already counted
C19_Witness ==
    /\ ccall.op = "updateSessionContent"
    /\ getCurrentSession # Null
    /\ checkpoint > 0
    /\ getCurrentSession.wordCount < checkpoint

\* a profile with its isActive flag left out of the comparison
Unflagged(profile) == [profile EXCEPT !.isActive = FALSE]

\* C21: setActivePersonality changes nothing but isActive flags: the
\* registry always holds the five ids mentor, critic, cheerleader,
\* collaborator and editor, each with the traits it was initialized with,
\* and every trait value lies within 0..100.
C21_RegistryFixed ==
    /\ Len(personalities) = 5
    /\ {personalities[i].id : i \in 1..Len(personalities)} =
          {"mentor", "critic", "cheerleader", "collaborator", "editor"}
    /\ \A i \in 1..Len(personalities) :
          /\ Unflagged(personalities[i]) = Unflagged(newPersonalities[i])
          /\ personalities[i].traits = newPersonalities[i].traits
          /\ \A axis \in DOMAIN personalities[i].traits :
                personalities[i].traits[axis] \in 0..100

\* a call moved the flag away from the profile that started active
C21_Witness ==
    /\ ccall.op = "setActivePersonality"
    /\ ccall.id \in PersonalityIds
    /\ ActiveIds(personalities) # ActiveIds(newPersonalities)
    /\ ccall.wasActive # ActiveIds(personalities)

Init ==
    /\ storage = <<>>
    /\ clock = 0
    /\ nextId = 1
    /\ call = [op |-> "none"]
    /\ ret = Null
    /\ prev = <<>>
    /\ saves = 0
    /\ emitted = <<>>
    /\ live = {}
    /\ gone = {}
    /\ calls = 0
    /\ personalities = newPersonalities
    /\ currentSession = Null
    /\ ended = Null
    /\ checkpoint = 0
    /\ ccall = [op |-> "none"]
    /\ phase = "Idle"
    /\ backendUp = TRUE
    /\ tasks = [t \in Tasks |-> IdleTask]
    /\ steps = <<>>
    /\ listeners = <<>>
    /\ received = <<>>
    /\ audience = 0

Next ==
    \/ createProject
    \/ updateProjectSync
    \/ createStory
    \/ updateStory
    \/ deleteStory
    \/ createCharacter
    \/ updateCharacter
    \/ deleteCharacter

Spec == Init /\ [][Next]_vars

AnyNext ==
    \/ createProject
    \/ updateProjectSyncAny
    \/ createStory
    \/ updateStoryAny
    \/ deleteStory
    \/ createCharacter
    \/ updateCharacterAny
    \/ deleteCharacter

AnySpec == Init /\ [][AnyNext]_vars

FailNext ==
    \/ Next
    \/ backendChanges

FailSpec == Init /\ [][FailNext]_vars

AsyncNext ==
    \/ createProject
    \/ issueAsync
    \/ resumeAsync

AsyncSpec == Init /\ [][AsyncNext]_vars

ListenNext ==
    \/ createProject
    \/ updateProjectSync
    \/ on

ListenSpec == Init /\ [][ListenNext]_vars

CompanionNext ==
    \/ setActivePersonality
    \/ startWritingSession
    \/ updateSessionContent
    \/ endWritingSession

CompanionSpec == Init /\ [][CompanionNext]_vars

=============================================================================
